---- MODULE Spec2Model ----
(***************************************************************************)
(* A model of the ExtractTranslationRegexPlugin (webpack plugin) and of    *)
(* its key generator.  Strings are sequences of one-character strings;     *)
(* JavaScript objects are sequences of <<property, value>> pairs kept in   *)
(* the engine's own-property enumeration order.                            *)
(***************************************************************************)
EXTENDS Integers, Sequences, FiniteSets, TLC

(***************************************************************************)
(* Strings                                                                 *)
(***************************************************************************)

\* The characters with code points 48..122, in code-point order (code 96,
\* the grave accent, is written "GRAVE").
AsciiFrom48 ==
  << "0","1","2","3","4","5","6","7","8","9",
     ":",";","<","=",">","?","@",
     "A","B","C","D","E","F","G","H","I","J","K","L","M",
     "N","O","P","Q","R","S","T","U","V","W","X","Y","Z",
     "[","\\","]","^","_","GRAVE",
     "a","b","c","d","e","f","g","h","i","j","k","l","m",
     "n","o","p","q","r","s","t","u","v","w","x","y","z" >>

\* String.fromCharCode(i) for 48 <= i <= 122.
fromCharCode(i) == AsciiFrom48[i - 47]

Digits == {"0","1","2","3","4","5","6","7","8","9"}

\* \s of the regular-expression engine (the characters the model uses).
WhiteSpace == {" ", "\t", "\n"}

\* Line terminators, which "." does not match.
LineTerminators == {"\n"}

StartsWithAt(s, p, w) ==
  /\ p >= 1
  /\ p + Len(w) - 1 <= Len(s)
  /\ SubSeq(s, p, p + Len(w) - 1) = w

\* The tail of s from position p (1-based).
From(s, p) == SubSeq(s, p, Len(s))

\* The number a string of decimal digits denotes.
RECURSIVE DecimalValue(_)
DecimalValue(s) ==
  IF s = <<>> THEN 0
  ELSE 10 * DecimalValue(SubSeq(s, 1, Len(s) - 1))
       + (CHOOSE d \in 0..9 : fromCharCode(48 + d) = s[Len(s)])

(***************************************************************************)
(* key-generator.js                                                        *)
(***************************************************************************)

\* Lines 3-10: the alphanumeric characters among code points 48..122.
alphabet ==
  LET codes == [k \in 1..75 |-> k + 47]
      kept  == SelectSeq(codes, LAMBDA i :
                 ~(i >= 58 /\ i <= 64) /\ ~(i >= 91 /\ i <= 96))
  IN  [k \in 1..Len(kept) |-> fromCharCode(kept[k])]

\* The loop of lines 16-20 putting each digit after the key instead of
\* before it.
RECURSIVE GeneratorLoopBad(_, _)
GeneratorLoopBad(remainder, key) ==
  LET key2 == key \o <<alphabet[(remainder % Len(alphabet)) + 1]>>
      rem2 == remainder \div Len(alphabet)
  IN  IF rem2 # 0 THEN GeneratorLoopBad(rem2, key2) ELSE key2

\* Lines 16-20: the do/while loop building the key for one index.
RECURSIVE GeneratorLoop(_, _)
GeneratorLoop(remainder, key) ==
  LET key2 == <<alphabet[(remainder % Len(alphabet)) + 1]>> \o key
      rem2 == remainder \div Len(alphabet)
  IN  IF rem2 # 0 THEN GeneratorLoop(rem2, key2) ELSE key2

\* Lines 12-23: one next() of the generator whose counter is index.
GeneratorNext(index) ==
  [value |-> GeneratorLoop(index, <<>>), index |-> index + 1]

(***************************************************************************)
(* JavaScript objects and strings, as the engine gives them to the plugin  *)
(***************************************************************************)

\* Property names every {} inherits from Object.prototype.
ObjectPrototypeProps ==
  { <<"c","o","n","s","t","r","u","c","t","o","r">>,
    <<"t","o","S","t","r","i","n","g">>,
    <<"v","a","l","u","e","O","f">>,
    <<"h","a","s","O","w","n","P","r","o","p","e","r","t","y">>,
    <<"i","s","P","r","o","t","o","t","y","p","e","O","f">>,
    <<"p","r","o","p","e","r","t","y","I","s","E","n","u","m","e","r","a","b","l","e">>,
    <<"t","o","L","o","c","a","l","e","S","t","r","i","n","g">>,
    <<"_","_","p","r","o","t","o","_","_">>,
    <<"_","_","d","e","f","i","n","e","G","e","t","t","e","r","_","_">>,
    <<"_","_","d","e","f","i","n","e","S","e","t","t","e","r","_","_">>,
    <<"_","_","l","o","o","k","u","p","G","e","t","t","e","r","_","_">>,
    <<"_","_","l","o","o","k","u","p","S","e","t","t","e","r","_","_">> }

\* An object is the sequence of its own <<property, value>> pairs in
\* enumeration order: array-index names ascending, then the other names in
\* insertion order.
EmptyObject == <<>>

HasOwn(obj, prop) == \E i \in 1..Len(obj) : obj[i][1] = prop

GetProp(obj, prop) == obj[CHOOSE i \in 1..Len(obj) : obj[i][1] = prop][2]

\* A canonical array index: decimal digits without a leading zero (names of
\* up to nine digits, which stay far below 2^32 - 1).
IsArrayIndex(prop) ==
  /\ Len(prop) >= 1
  /\ Len(prop) <= 9
  /\ \A i \in 1..Len(prop) : prop[i] \in Digits
  /\ (Len(prop) > 1 => prop[1] # "0")

\* obj[prop] = val on an object whose prototype is Object.prototype
\* (withProto) or null.
SetProp(obj, prop, val, withProto) ==
  IF withProto /\ prop = <<"_","_","p","r","o","t","o","_","_">>
  THEN obj
  ELSE IF HasOwn(obj, prop)
  THEN [i \in 1..Len(obj) |-> IF obj[i][1] = prop THEN <<prop, val>> ELSE obj[i]]
  ELSE IF IsArrayIndex(prop)
  THEN LET before == SelectSeq(obj, LAMBDA e :
                       IsArrayIndex(e[1]) /\ DecimalValue(e[1]) < DecimalValue(prop))
       IN  before \o <<<<prop, val>>>> \o SubSeq(obj, Len(before) + 1, Len(obj))
  ELSE Append(obj, <<prop, val>>)

\* prop in obj
InObject(obj, prop, withProto) ==
  HasOwn(obj, prop) \/ (withProto /\ prop \in ObjectPrototypeProps)

\* The replacement text of String.prototype.replace for one match: "$$",
\* "$&", the text before ("$" and a grave accent) and the text after ("$'");
\* "$n" stays as written where the pattern has no capture group.
RECURSIVE ExpandReplacement(_, _, _, _)
ExpandReplacement(repl, matched, before, after) ==
  IF repl = <<>> THEN <<>>
  ELSE IF repl[1] = "$" /\ Len(repl) >= 2 /\ repl[2] \in {"$", "&", "GRAVE", "'"}
  THEN (CASE repl[2] = "$"     -> <<"$">>
          [] repl[2] = "&"     -> matched
          [] repl[2] = "GRAVE" -> before
          [] repl[2] = "'"     -> after)
       \o ExpandReplacement(SubSeq(repl, 3, Len(repl)), matched, before, after)
  ELSE <<repl[1]>> \o ExpandReplacement(Tail(repl), matched, before, after)

\* str.replace(new RegExp(<needle, matched literally>, 'g'), repl) from
\* position p on: every non-overlapping occurrence, left to right.
RECURSIVE ReplaceFrom(_, _, _, _)
ReplaceFrom(str, needle, repl, p) ==
  IF p > Len(str) THEN <<>>
  ELSE IF StartsWithAt(str, p, needle)
  THEN ExpandReplacement(repl, needle, SubSeq(str, 1, p - 1),
                         From(str, p + Len(needle)))
       \o ReplaceFrom(str, needle, repl, p + Len(needle))
  ELSE <<str[p]>> \o ReplaceFrom(str, needle, repl, p + 1)

ReplaceAllLiteral(str, needle, repl) == ReplaceFrom(str, needle, repl, 1)

\* str.replace(new RegExp(sanitizeForRegexp(original), 'gm'), repl): the
\* sanitized pattern (lines 224-226 escape every metacharacter) matches
\* exactly the occurrences of original.
sanitizedReplace(str, original, repl) == ReplaceAllLiteral(str, original, repl)

(***************************************************************************)
(* Regular expressions the plugin is configured with                       *)
(***************************************************************************)

\* A capture group of a match: its text, or undefined.
Captured(txt) == [def |-> TRUE, txt |-> txt]
Undefined == [def |-> FALSE, txt |-> <<>>]

NoMatch == [found |-> FALSE, index |-> 0, lastIndex |-> 0, groups |-> <<>>]

\* match[i] of a match array (i from 0).
Group(m, i) == m.groups[i + 1]

RECURSIVE SkipWhiteSpace(_, _)
SkipWhiteSpace(s, p) ==
  IF p <= Len(s) /\ s[p] \in WhiteSpace THEN SkipWhiteSpace(s, p + 1) ELSE p

\* [^q\\]*(?:\\.[^q\\]*)* followed by q, from position p: the position of
\* the closing quote q, or 0 when the text does not match.
RECURSIVE ScanBody(_, _, _)
ScanBody(s, p, q) ==
  IF p > Len(s) THEN 0
  ELSE IF s[p] = q THEN p
  ELSE IF s[p] = "\\"
  THEN IF p + 1 <= Len(s) /\ s[p + 1] \notin LineTerminators
       THEN ScanBody(s, p + 2, q) ELSE 0
  ELSE ScanBody(s, p + 1, q)

\* A regexp of the shape of the built-in functionPattern (line 54),
\*   fn\(\s*(?:"([^"\\]*(?:\\.[^"\\]*)*)(")|'([^'\\]*(?:\\.[^'\\]*)*)('))
\* for a function name fn, and a pattern given as a string.
QuotedCallRegExp(fn, flags) == [type |-> "regexp", source |-> fn, flags |-> flags]

\* A regexp that keeps the other arguments of the call in a second group,
\*   fn\("([^"]*)"([^)]*)\)
ArgsCallRegExp(fn, flags) == [type |-> "args", source |-> fn, flags |-> flags]
StringPattern(text) == [type |-> "string", source |-> text, flags |-> {}]

\* The match of the quoted-call shape that starts at position p, if any.
QuotedCallMatchAt(fn, s, p) ==
  IF ~StartsWithAt(s, p, fn \o <<"(">>) THEN NoMatch
  ELSE
    LET q == SkipWhiteSpace(s, p + Len(fn) + 1) IN
    IF q > Len(s) \/ s[q] \notin {"\"", "'"} THEN NoMatch
    ELSE
      LET close == ScanBody(s, q + 1, s[q]) IN
      IF close = 0 THEN NoMatch
      ELSE
        LET full == Captured(SubSeq(s, p, close))
            body == Captured(SubSeq(s, q + 1, close - 1))
            quot == Captured(<<s[q]>>)
        IN  [found |-> TRUE, index |-> p - 1, lastIndex |-> close,
             groups |-> IF s[q] = "\""
                        THEN <<full, body, quot, Undefined, Undefined>>
                        ELSE <<full, Undefined, Undefined, body, quot>>]

\* The position of the first ch at or after position p, or 0.
RECURSIVE FirstOf(_, _, _)
FirstOf(s, p, ch) ==
  IF p > Len(s) THEN 0
  ELSE IF s[p] = ch THEN p
  ELSE FirstOf(s, p + 1, ch)

\* The match of the call-with-arguments shape that starts at position p.
ArgsCallMatchAt(fn, s, p) ==
  IF ~StartsWithAt(s, p, fn \o <<"(", "\"">>) THEN NoMatch
  ELSE
    LET q == p + Len(fn) + 2
        close == FirstOf(s, q, "\"")
    IN
    IF close = 0 THEN NoMatch
    ELSE
      LET paren == FirstOf(s, close + 1, ")") IN
      IF paren = 0 THEN NoMatch
      ELSE [found |-> TRUE, index |-> p - 1, lastIndex |-> paren,
            groups |-> << Captured(SubSeq(s, p, paren)),
                          Captured(SubSeq(s, q, close - 1)),
                          Captured(SubSeq(s, close + 1, paren - 1)) >>]

\* The match of a sanitized string pattern that starts at position p.
LiteralMatchAt(text, s, p) ==
  IF Len(text) > 0 /\ StartsWithAt(s, p, text)
  THEN [found |-> TRUE, index |-> p - 1, lastIndex |-> p - 1 + Len(text),
        groups |-> <<Captured(text)>>]
  ELSE NoMatch

RegExpMatchAt(regex, s, p) ==
  IF regex.type = "string" THEN LiteralMatchAt(regex.source, s, p)
  ELSE IF regex.type = "args" THEN ArgsCallMatchAt(regex.source, s, p)
  ELSE QuotedCallMatchAt(regex.source, s, p)

RECURSIVE SearchFrom(_, _, _)
SearchFrom(regex, s, p) ==
  IF p > Len(s) THEN NoMatch
  ELSE LET m == RegExpMatchAt(regex, s, p)
       IN  IF m.found THEN m ELSE SearchFrom(regex, s, p + 1)

\* regex.exec(s) of a global regexp whose lastIndex is lastIndex: the first
\* match at or after lastIndex; a failed search leaves lastIndex at 0.
exec(regex, s, lastIndex) ==
  IF lastIndex > Len(s) THEN NoMatch
  ELSE SearchFrom(regex, s, IF "g" \in regex.flags THEN lastIndex + 1 ELSE 1)

(***************************************************************************)
(* The plugin's helpers                                                    *)
(***************************************************************************)

\* The built-in moduleFilter (line 60):
\*   "script"        /((?:[^!?\s]+?)(?:\.js|\.jsx|\.ts))$/
\*   "noNodeModules" /^((?!node_modules).)*$/
\* and the patterns of a moduleFilter the options may give:
\*   "lettersDigitsJs" /[a-z]+([0-9]+)\.js$/
\*   "twelve"          /12/
ScriptSuffixes == { <<".","j","s">>, <<".","j","s","x">>, <<".","t","s">> }

NodeModules == <<"n","o","d","e","_","m","o","d","u","l","e","s">>

\* [a-z]
LowerCase == {"a","b","c","d","e","f","g","h","i","j","k","l","m",
              "n","o","p","q","r","s","t","u","v","w","x","y","z"}

\* The start of the longest run of characters of set that ends at position
\* e (e + 1 when the run is empty).
RECURSIVE RunStart(_, _, _)
RunStart(str, e, set) ==
  IF e >= 1 /\ str[e] \in set THEN RunStart(str, e - 1, set) ELSE e + 1

\* str.match(/[a-z]+([0-9]+)\.js$/)
LettersDigitsJsMatch(str) ==
  LET dot == Len(str) - 2 IN
  IF ~StartsWithAt(str, dot, <<".","j","s">>) THEN NoMatch
  ELSE LET d == RunStart(str, dot - 1, Digits)
           l == RunStart(str, d - 1, LowerCase)
       IN  IF d > dot - 1 \/ l > d - 1 THEN NoMatch
           ELSE [found |-> TRUE, index |-> l - 1, lastIndex |-> 0,
                 groups |-> << Captured(From(str, l)),
                               Captured(SubSeq(str, d, dot - 1)) >>]

\* str.match(/12/)
TwelveMatch(str) ==
  LET hits == {p \in 1..Len(str) : StartsWithAt(str, p, <<"1","2">>)} IN
  IF hits = {} THEN NoMatch
  ELSE [found |-> TRUE,
        index |-> (CHOOSE p \in hits : \A q \in hits : p <= q) - 1,
        lastIndex |-> 0, groups |-> << Captured(<<"1","2">>) >>]

\* str.match(pattern) for a moduleFilter pattern: the match array.
FilterMatch(pattern, str) ==
  IF pattern = "lettersDigitsJs" THEN LettersDigitsJsMatch(str)
  ELSE IF pattern = "twelve" THEN TwelveMatch(str)
  ELSE
  IF pattern = "script"
  THEN LET exts == {x \in ScriptSuffixes :
                      StartsWithAt(str, Len(str) - Len(x) + 1, x)}
       IN  IF exts = {} THEN NoMatch
           ELSE LET e == Len(str) - Len(CHOOSE x \in exts : TRUE) + 1
                    ok(i) == \A j \in i..(e - 1) :
                               str[j] \notin (WhiteSpace \cup {"!", "?"})
                    starts == {i \in 1..(e - 1) : ok(i)}
                IN  IF starts = {} THEN NoMatch
                    ELSE LET i == CHOOSE x \in starts : \A y \in starts : x <= y
                             m == Captured(From(str, i))
                         IN  [found |-> TRUE, index |-> i - 1,
                              lastIndex |-> 0, groups |-> <<m, m>>]
  ELSE \* "noNodeModules"
       IF \/ \E p \in 1..Len(str) : StartsWithAt(str, p, NodeModules)
          \/ \E p \in 1..Len(str) : str[p] \in LineTerminators
       THEN NoMatch
       ELSE [found |-> TRUE, index |-> 0, lastIndex |-> 0,
             groups |-> << Captured(str),
                           IF str = <<>> THEN Undefined
                           ELSE Captured(<<str[Len(str)]>>) >>]

\* filterModule matching every pattern against the module request itself.
RECURSIVE filterModuleSameSubject(_, _)
filterModuleSameSubject(moduleRequest, moduleFilter) ==
  IF moduleFilter = <<>> THEN TRUE
  ELSE LET matches == FilterMatch(Head(moduleFilter), moduleRequest)
       IN  IF ~matches.found THEN FALSE
           ELSE filterModuleSameSubject(moduleRequest, Tail(moduleFilter))

\* Lines 189-198.
RECURSIVE filterModule(_, _)
filterModule(moduleRequest, moduleFilter) ==
  IF moduleFilter = <<>> THEN TRUE
  ELSE LET matches == FilterMatch(Head(moduleFilter), moduleRequest)
       IN  IF ~matches.found THEN FALSE
           ELSE filterModule(matches.groups[Len(matches.groups)].txt,
                             Tail(moduleFilter))

\* Lines 207-216.
ensureRegExp(regexp) ==
  IF regexp.type = "string"
  THEN [type |-> "string", source |-> regexp.source, flags |-> {"g", "m"}]
  ELSE [regexp EXCEPT !.flags = @ \cup {"g", "m"}]

\* Lines 234-242: the own properties in enumeration order, each written
\* into a new {} under its value.
RECURSIVE flipInto(_, _)
flipInto(newObj, rest) ==
  IF rest = <<>> THEN newObj
  ELSE flipInto(SetProp(newObj, Head(rest)[2], Head(rest)[1], TRUE), Tail(rest))

flipObject(obj) == flipInto(EmptyObject, obj)

\* match[index] is truthy: the group took part and its text is not empty.
Truthy(m, index) ==
  /\ index >= 0
  /\ index + 1 <= Len(m.groups)
  /\ Group(m, index).def
  /\ Group(m, index).txt # <<>>

\* Lines 250-258.
RECURSIVE getKeyIndexFromMatch(_, _)
getKeyIndexFromMatch(match, groupIndex) ==
  IF groupIndex = <<>> THEN -1
  ELSE IF Truthy(match, Head(groupIndex)) THEN Head(groupIndex)
  ELSE getKeyIndexFromMatch(match, Tail(groupIndex))

\* The decimal digits of a number i >= 0 ('\\$' + i, line 130).
RECURSIVE DecimalString(_)
DecimalString(i) ==
  IF i < 10 THEN <<fromCharCode(48 + i)>>
  ELSE DecimalString(i \div 10) \o <<fromCharCode(48 + (i % 10))>>

\* Lines 115-131: the replacement for one match, back-reference by
\* back-reference from $1 up, each by a global replace of the text so far.
RECURSIVE buildReplacement(_, _, _, _, _, _)
buildReplacement(replacement, match, groupIndex, keyIndex, key, i) ==
  IF i >= Len(match.groups) THEN replacement
  ELSE
    LET tmp == IF ~Group(match, i).def THEN <<>>
               ELSE IF \E k \in 1..Len(groupIndex) : groupIndex[k] = i
               THEN (IF i = keyIndex THEN key ELSE <<>>)
               ELSE Group(match, i).txt
    IN  buildReplacement(
          ReplaceAllLiteral(replacement, <<"$">> \o DecimalString(i), tmp),
          match, groupIndex, keyIndex, key, i + 1)

(***************************************************************************)
(* The plugin: constructor (lines 52-68)                                   *)
(***************************************************************************)

Given(v) == [given |-> TRUE, val |-> v]
NotGiven(v) == [given |-> FALSE, val |-> v]

GroupIndexList(items) == [type |-> "object", num |-> 0, items |-> items]
GroupIndexNumber(n) == [type |-> "number", num |-> n, items |-> <<>>]

Gettext == <<"g","e","t","t","e","x","t">>

\* Line 54.
DefaultFunctionPattern == QuotedCallRegExp(Gettext, {"g", "m"})

\* Line 55: 'gettext($2$4$1$3$2$4'.
DefaultFunctionReplace ==
  <<"g","e","t","t","e","x","t","(","$","2","$","4","$","1","$","3","$","2","$","4">>

\* Line 60.
DefaultModuleFilter == <<"script", "noNodeModules">>

\* new ExtractTranslationRegexPlugin(options): whether it threw, and the
\* instance's fields.
Constructor(options) ==
  LET replaceGiven == options.functionReplace.given
                        /\ options.functionReplace.val # <<>>
      groupIndex ==
        IF options.groupIndex.given
             /\ ~(options.groupIndex.val.type = "number"
                    /\ options.groupIndex.val.num = 0)
        THEN options.groupIndex.val
        ELSE GroupIndexList(<<1, 3>>)
  IN
  [threw |-> options.functionPattern.given /\ ~replaceGiven,
   this  |->
     [functionPattern |-> IF options.functionPattern.given
                          THEN options.functionPattern.val
                          ELSE DefaultFunctionPattern,
      functionReplace |-> IF replaceGiven THEN options.functionReplace.val
                          ELSE DefaultFunctionReplace,
      groupIndex      |-> IF groupIndex.type # "object"
                          THEN <<groupIndex.num>>
                          ELSE groupIndex.items,
      output          |-> IF options.output.given
                          THEN Captured(options.output.val) ELSE Undefined,
      mangle          |-> options.mangle.given /\ options.mangle.val,
      moduleFilter    |-> IF options.moduleFilter.given
                          THEN options.moduleFilter.val
                          ELSE DefaultModuleFilter]]

(***************************************************************************)
(* The 'optimize-chunks' handler (lines 77-150)                            *)
(***************************************************************************)

\* Lines 103-110: the key of one matched value, saved per chunk.
\* saveKey drawing from the generator whether or not this.mangle is set.
saveKeyAlwaysMangled(this, keys, generator, chunkName, value) ==
  LET keys1 == IF HasOwn(keys, chunkName) THEN keys
               ELSE SetProp(keys, chunkName, EmptyObject, FALSE)
      table == GetProp(keys1, chunkName)
      fresh == ~InObject(table, value, TRUE)
      next  == GeneratorNext(generator)
      key   == IF fresh THEN next.value ELSE value
  IN  [key       |-> key,
       fresh     |-> fresh,
       generator |-> IF fresh THEN next.index ELSE generator,
       keys      |-> IF fresh
                     THEN SetProp(keys1, chunkName,
                                  SetProp(table, value, key, TRUE), FALSE)
                     ELSE keys1]

saveKey(this, keys, generator, chunkName, value) ==
  LET keys1 == IF HasOwn(keys, chunkName) THEN keys
               ELSE SetProp(keys, chunkName, EmptyObject, FALSE)
      table == GetProp(keys1, chunkName)
      fresh == ~InObject(table, value, TRUE)
      next  == GeneratorNext(generator)
      key   == IF fresh /\ this.mangle THEN next.value ELSE value
  IN  [key       |-> key,
       fresh     |-> fresh,
       generator |-> IF fresh /\ this.mangle THEN next.index ELSE generator,
       keys      |-> IF fresh
                     THEN SetProp(keys1, chunkName,
                                  SetProp(table, value, key, TRUE), FALSE)
                     ELSE keys1]

\* Lines 113-136: the source after the keys of one match are replaced.
replaceKeys(this, source, match, keyIndex, key) ==
  IF this.mangle
  THEN sanitizedReplace(source, Group(match, 0).txt,
         buildReplacement(this.functionReplace, match, this.groupIndex,
                          keyIndex, key, 1))
  ELSE source

\* Lines 91-136: the body of the while loop for one match.  st is the
\* handler's state: this.keys, this.generator, the local source,
\* compilation.errors, whether the handler has returned, and the record of
\* the matches it has handled (for each, the match, the key saved, the
\* replacement built at lines 115-131 and the source before and after).
\* handleMatch without the return of line 96.
handleMatchNoReturn(this, st, ctx, match) ==
  LET keyIndex == getKeyIndexFromMatch(match, this.groupIndex)
      event == [compiler |-> ctx.compiler, pass |-> ctx.pass,
                chunk |-> ctx.chunk, unit |-> ctx.unit,
                index |-> match.index, original |-> Group(match, 0).txt,
                groups |-> match.groups,
                keyIndex |-> keyIndex, value |-> <<>>, key |-> <<>>,
                fresh |-> FALSE, replacement |-> <<>>,
                before |-> st.text, after |-> st.text]
  IN
  IF keyIndex = -1
  THEN [st EXCEPT !.errors = Append(@, "no capture block"),
                  !.log = Append(@, event)]
  ELSE
    LET value == Group(match, keyIndex).txt
        saved == saveKey(this, st.keys, st.generator, ctx.chunk, value)
    IN  [st EXCEPT
           !.keys = saved.keys,
           !.generator = saved.generator,
           !.text = replaceKeys(this, st.text, match, keyIndex, saved.key),
           !.log = Append(@, [event EXCEPT
                     !.value = value,
                     !.key = saved.key,
                     !.fresh = saved.fresh,
                     !.replacement =
                        IF this.mangle
                        THEN buildReplacement(this.functionReplace, match,
                                              this.groupIndex, keyIndex,
                                              saved.key, 1)
                        ELSE <<>>,
                     !.after = replaceKeys(this, st.text, match, keyIndex,
                                           saved.key)])]

handleMatch(this, st, ctx, match) ==
  LET keyIndex == getKeyIndexFromMatch(match, this.groupIndex)
      event == [compiler |-> ctx.compiler, pass |-> ctx.pass,
                chunk |-> ctx.chunk, unit |-> ctx.unit,
                index |-> match.index, original |-> Group(match, 0).txt,
                groups |-> match.groups,
                keyIndex |-> keyIndex, value |-> <<>>, key |-> <<>>,
                fresh |-> FALSE, replacement |-> <<>>,
                before |-> st.text, after |-> st.text]
  IN
  IF keyIndex = -1
  THEN [st EXCEPT !.errors = Append(@, "no capture block"),
                  !.returned = TRUE,
                  !.log = Append(@, event)]
  ELSE
    LET value == Group(match, keyIndex).txt
        saved == saveKey(this, st.keys, st.generator, ctx.chunk, value)
    IN  [st EXCEPT
           !.keys = saved.keys,
           !.generator = saved.generator,
           !.text = replaceKeys(this, st.text, match, keyIndex, saved.key),
           !.log = Append(@, [event EXCEPT
                     !.value = value,
                     !.key = saved.key,
                     !.fresh = saved.fresh,
                     !.replacement =
                        IF this.mangle
                        THEN buildReplacement(this.functionReplace, match,
                                              this.groupIndex, keyIndex,
                                              saved.key, 1)
                        ELSE <<>>,
                     !.after = replaceKeys(this, st.text, match, keyIndex,
                                           saved.key)])]

\* Lines 90-137: the while loop over regex.exec(source): the search, the
\* loop test on its result, and the next turn unless the body returned.
RECURSIVE scanSource(_, _, _, _, _)
whileNext(this, st2, ctx, regex, lastIndex) ==
  IF st2.returned THEN st2 ELSE scanSource(this, st2, ctx, regex, lastIndex)

whileMatch(this, st, ctx, regex, match) ==
  IF ~match.found THEN st
  ELSE whileNext(this, handleMatch(this, st, ctx, match), ctx, regex,
                 match.lastIndex)

scanSource(this, st, ctx, regex, lastIndex) ==
  whileMatch(this, st, ctx, regex, exec(regex, st.text, lastIndex))

\* Line 139: module._source._value = source, unless the handler returned.
storeSource(st2, unit) ==
  IF st2.returned THEN st2 ELSE [st2 EXCEPT !.source[unit] = st2.text]

\* handleModule without the test of line 84.
handleModuleNoFilter(this, st, ctx, module) ==
  storeSource(scanSource(this, [st EXCEPT !.text = st.source[ctx.unit]],
                         ctx, ensureRegExp(this.functionPattern), 0),
              ctx.unit)

\* Lines 81-140: one module of a chunk.
handleModule(this, st, ctx, module) ==
  IF /\ module.userRequest.def
     /\ module.userRequest.txt # <<>>
     /\ filterModule(module.userRequest.txt, this.moduleFilter)
  THEN storeSource(scanSource(this, [st EXCEPT !.text = st.source[ctx.unit]],
                              ctx, ensureRegExp(this.functionPattern), 0),
                   ctx.unit)
  ELSE st

\* Lines 80-141: the modules of one chunk, in order.
RECURSIVE handleModules(_, _, _, _, _)
handleModules(this, st, ctx, modules, units) ==
  IF modules = <<>> \/ st.returned THEN st
  ELSE handleModules(this,
         handleModule(this, st, [ctx EXCEPT !.unit = Head(modules)],
                      units[Head(modules)]),
         ctx, Tail(modules), units)

\* Lines 78-142: the chunks, in order.
RECURSIVE handleChunks(_, _, _, _, _)
handleChunks(this, st, ctx, chunks, units) ==
  IF chunks = <<>> \/ st.returned THEN st
  ELSE handleChunks(this,
         handleModules(this, st, [ctx EXCEPT !.chunk = Head(chunks).name],
                       Head(chunks).modules, units),
         ctx, Tail(chunks), units)

\* Lines 144-147: every table of this.keys flipped.
flipAll(keys) == [i \in 1..Len(keys) |-> <<keys[i][1], flipObject(keys[i][2])>>]

\* Lines 144-149: after the loops, unless the handler returned at line 96.
flipUnlessReturned(st2) ==
  IF st2.returned THEN st2 ELSE [st2 EXCEPT !.keys = flipAll(@)]

\* Lines 77-150: the whole handler.
optimizeChunks(this, st, ctx, chunks, units) ==
  flipUnlessReturned(handleChunks(this, st, ctx, chunks, units))

(***************************************************************************)
(* The 'done' handler (lines 153-175)                                      *)
(***************************************************************************)

\* String(v), as replace() makes of its second argument.
StringOf(v) == IF v.def THEN v.txt ELSE <<"u","n","d","e","f","i","n","e","d">>

RECURSIVE IndexOf(_, _, _)
IndexOf(str, needle, p) ==
  IF p + Len(needle) - 1 > Len(str) THEN 0
  ELSE IF StartsWithAt(str, p, needle) THEN p
  ELSE IndexOf(str, needle, p + 1)

\* str.replace(needle, repl) with a string needle: the first occurrence.
ReplaceFirst(str, needle, repl) ==
  LET p == IndexOf(str, needle, 1) IN
  IF p = 0 THEN str
  ELSE SubSeq(str, 1, p - 1)
       \o ExpandReplacement(repl, needle, SubSeq(str, 1, p - 1),
                            From(str, p + Len(needle)))
       \o From(str, p + Len(needle))

ChildToken == <<"[","c","h","i","l","d","]">>
ChunkToken == <<"[","c","h","u","n","k","]">>

SafeChars == {alphabet[i] : i \in 1..Len(alphabet)} \cup {".", "-", "_"}

\* chunkName.replace(/[^a-z0-9.\-_]+/gi, '-') (line 169).
RECURSIVE safeName(_, _)
safeName(name, p) ==
  IF p > Len(name) THEN <<>>
  ELSE IF name[p] \in SafeChars THEN <<name[p]>> \o safeName(name, p + 1)
  ELSE IF p > 1 /\ name[p - 1] \notin SafeChars THEN safeName(name, p + 1)
  ELSE <<"-">> \o safeName(name, p + 1)

\* Object.assign that keeps a property the target already has.
RECURSIVE assignKeepFirst(_, _)
assignKeepFirst(output, obj) ==
  IF obj = <<>> THEN output
  ELSE assignKeepFirst(IF HasOwn(output, Head(obj)[1]) THEN output
                       ELSE SetProp(output, Head(obj)[1], Head(obj)[2], TRUE),
                       Tail(obj))

\* Object.assign(output, obj) (line 162).
RECURSIVE assign(_, _)
assign(output, obj) ==
  IF obj = <<>> THEN output
  ELSE assign(SetProp(output, Head(obj)[1], Head(obj)[2], TRUE), Tail(obj))

RECURSIVE mergeAll(_, _)
mergeAll(output, keys) ==
  IF keys = <<>> THEN output
  ELSE mergeAll(assign(output, Head(keys)[2]), Tail(keys))

\* fs.writeFileSync(path, JSON.stringify(obj, null, 2)): the file holds the
\* object's properties in enumeration order.
writeFile(files, path, obj) == SetProp(files, path, obj, FALSE)

RECURSIVE writeChunks(_, _, _)
writeChunks(files, output, keys) ==
  IF keys = <<>> THEN files
  ELSE writeChunks(
         writeFile(files,
                   ReplaceFirst(output, ChunkToken, safeName(Head(keys)[1], 1)),
                   Head(keys)[2]),
         output, Tail(keys))

\* Lines 153-175: this.output and the files after the handler; name is
\* stats.compilation.compiler.name.
doneHandler(this, keys, files, name) ==
  IF this.output.def /\ this.output.txt # <<>>
  THEN LET output == ReplaceFirst(this.output.txt, ChildToken, StringOf(name))
       IN  [output |-> Captured(output),
            files  |-> IF IndexOf(output, ChunkToken, 1) = 0
                       THEN writeFile(files, output, mergeAll(EmptyObject, keys))
                       ELSE writeChunks(files, output, keys)]
  ELSE [output |-> this.output, files |-> files]

(***************************************************************************)
(* The host: two compilers that share one plugin instance                  *)
(***************************************************************************)

\* Most compilations the host starts and most 'optimize-chunks' passes it
\* fires, over all compilers.
MaxBuilds == 2
MaxPasses == 3

Compilers == {"A", "B"}

\* compiler.name: A is named, B is not.
CompilerName(c) == IF c = "A" THEN Captured(<<"a","p","p">>) ELSE Undefined

MainChunk == <<"m","a","i","n">>
LibChunk == <<"l","i","b","/","1">>

Units == {"a1", "a2", "a3", "b1"}

\* compilation.chunks with each chunk's modules, in order.
ChunksOf(c) ==
  IF c = "A"
  THEN << [name |-> MainChunk, modules |-> <<"a1", "a2">>],
          [name |-> LibChunk,  modules |-> <<"a3">>] >>
  ELSE << [name |-> MainChunk, modules |-> <<"b1">>] >>

UnitsOf(c) == IF c = "A" THEN {"a1", "a2", "a3"} ELSE {"b1"}

\* fn("key") or fn('key'), followed by ");".
Call(fn, quote, key) == fn \o <<"(", quote>> \o key \o <<quote, ")", ";">>

KeyA == <<"a">>
KeyB == <<"b">>
LongKey == <<"k","e","y","1">>

ScriptPath == Captured(<<"a",".","j","s">>)
StylePath == Captured(<<"a",".","c","s","s">>)
VendorPath == Captured(NodeModules \o <<"/","a",".","j","s">>)

Unit(userRequest, text) == [userRequest |-> userRequest, text |-> text]

\* The module sources the host may supply, for a function name fn.
TextOne(fn)      == Call(fn, "\"", KeyA)
TextOneSq(fn)    == Call(fn, "'", KeyA)
TextOther(fn)    == Call(fn, "\"", KeyB)
TextABA(fn)      == Call(fn, "\"", KeyA) \o Call(fn, "\"", KeyB) \o Call(fn, "\"", KeyA)
TextLong(fn)     == Call(fn, "\"", LongKey) \o Call(fn, "\"", KeyB)
TextEmptyKey(fn) == Call(fn, "\"", KeyA) \o Call(fn, "\"", <<>>) \o Call(fn, "\"", KeyB)
TextNone         == <<"x","=","1",";">>
TextToString(fn) == Call(fn, "\"", <<"t","o","S","t","r","i","n","g">>)
TextDigit(fn)    == Call(fn, "\"", <<"2">>)
TextDigitSq(fn)  == Call(fn, "'", <<"2">>)

\* fn("key"rest);
ArgsCall(fn, key, rest) == fn \o <<"(", "\"">> \o key \o <<"\"">> \o rest \o <<")", ";">>

TextArgsNone(fn)    == ArgsCall(fn, KeyA, <<>>)
TextArgsPlain(fn)   == ArgsCall(fn, KeyA, <<",", "1">>)
TextArgsDollars(fn) == ArgsCall(fn, KeyA, <<",", "'", "$", "$", "'">>)
TextArgsAmp(fn)     == ArgsCall(fn, KeyA, <<",", "'", "$", "&", "'">>)

\* The module paths of the moduleFilter example.
FoobarJs    == Captured(<<"f","o","o","b","a","r",".","j","s">>)
Foobar11Js  == Captured(<<"f","o","o","b","a","r","1","1",".","j","s">>)
Foobar12Css == Captured(<<"f","o","o","b","a","r","1","2",".","c","s","s">>)
Foobar12Js  == Captured(<<"f","o","o","b","a","r","1","2",".","j","s">>)

AllUnits(a1, a2, a3, b1) == [a1 : a1, a2 : a2, a3 : a3, b1 : b1]

Scripts(texts) == {Unit(ScriptPath, t) : t \in texts}

\* The options the plugin may be constructed with.
NoOptions ==
  [functionPattern |-> NotGiven(DefaultFunctionPattern),
   functionReplace |-> NotGiven(<<>>),
   groupIndex      |-> NotGiven(GroupIndexNumber(0)),
   output          |-> NotGiven(<<>>),
   mangle          |-> NotGiven(FALSE),
   moduleFilter    |-> NotGiven(<<>>)]

ShortFn == <<"t">>
ShortReplace == <<"t","(","$","2","$","4","$","1","$","3","$","2","$","4">>
OutputPerChunk == <<"o","-","[","c","h","i","l","d","]","-","[","c","h","u","n","k","]">>
OutputSingle == <<"o","-","[","c","h","i","l","d","]">>
ArgsReplace == <<"t","(","\"","$","1","\"","$","2",")">>

\* The moduleFilter chains the options may give.
FilterChains ==
  { <<"lettersDigitsJs", "twelve">>,
    <<"twelve", "script">>,
    <<"twelve", "twelve">> }

\* The plugin's configurations, each with the function name its pattern
\* looks for and the module sets the host may build under it.
Configurations ==
  { [options |-> NoOptions,
     units   |-> AllUnits(Scripts({TextOne(Gettext), TextNone}),
                          Scripts({TextOne(Gettext)}),
                          Scripts({TextOther(Gettext)}),
                          Scripts({TextOne(Gettext)}))],
    [options |-> [NoOptions EXCEPT !.mangle = Given(TRUE)],
     units   |-> AllUnits(Scripts({TextABA(Gettext), TextLong(Gettext)}),
                          Scripts({TextOneSq(Gettext)}),
                          Scripts({TextOne(Gettext)}),
                          Scripts({TextOne(Gettext)}))],
    [options |-> [NoOptions EXCEPT
                    !.functionPattern = Given(QuotedCallRegExp(ShortFn, {})),
                    !.functionReplace = Given(ShortReplace),
                    !.groupIndex = Given(GroupIndexList(<<1, 3>>)),
                    !.output = Given(OutputPerChunk),
                    !.mangle = Given(TRUE)],
     units   |-> AllUnits(Scripts({TextOne(ShortFn), TextABA(ShortFn),
                                   TextLong(ShortFn), TextEmptyKey(ShortFn),
                                   TextNone}),
                          Scripts({TextOne(ShortFn), TextOneSq(ShortFn)})
                            \cup {Unit(StylePath, TextOne(ShortFn)),
                                  Unit(VendorPath, TextOther(ShortFn))},
                          Scripts({TextOne(ShortFn)}),
                          Scripts({TextOne(ShortFn), TextABA(ShortFn)}))],
    [options |-> [NoOptions EXCEPT
                    !.functionPattern = Given(QuotedCallRegExp(ShortFn, {"g"})),
                    !.functionReplace = Given(ShortReplace),
                    !.groupIndex = Given(GroupIndexNumber(1)),
                    !.output = Given(OutputSingle)],
     units   |-> AllUnits(Scripts({TextOne(ShortFn), TextABA(ShortFn),
                                   TextEmptyKey(ShortFn), TextNone,
                                   TextToString(ShortFn)}),
                          {Unit(ScriptPath, TextOne(ShortFn)),
                           Unit(StylePath, TextOne(ShortFn))},
                          Scripts({TextOther(ShortFn)}),
                          Scripts({TextOne(ShortFn), TextOther(ShortFn)}))],
    [options |-> [NoOptions EXCEPT
                    !.functionPattern = Given(QuotedCallRegExp(ShortFn, {})),
                    !.functionReplace = Given(ShortReplace),
                    !.output = Given(OutputSingle),
                    !.mangle = Given(TRUE)],
     units   |-> AllUnits(Scripts({TextOne(ShortFn), TextDigit(ShortFn)}),
                          Scripts({TextOneSq(ShortFn), TextDigitSq(ShortFn)}),
                          Scripts({TextOne(ShortFn)}),
                          Scripts({TextOne(ShortFn)}))],
    [options |-> [NoOptions EXCEPT
                    !.functionPattern = Given(ArgsCallRegExp(ShortFn, {"g"})),
                    !.functionReplace = Given(ArgsReplace),
                    !.groupIndex = Given(GroupIndexNumber(1)),
                    !.mangle = Given(TRUE)],
     units   |-> AllUnits(Scripts({TextArgsPlain(ShortFn),
                                   TextArgsDollars(ShortFn),
                                   TextArgsAmp(ShortFn)}),
                          Scripts({TextArgsNone(ShortFn)}),
                          Scripts({TextArgsNone(ShortFn)}),
                          Scripts({TextArgsNone(ShortFn)}))],
    [options |-> [NoOptions EXCEPT
                    !.functionPattern = Given(ArgsCallRegExp(ShortFn, {"g"})),
                    !.functionReplace = Given(ArgsReplace),
                    !.groupIndex = Given(GroupIndexList(<<2, 1>>)),
                    !.mangle = Given(TRUE)],
     units   |-> AllUnits(Scripts({TextArgsPlain(ShortFn), TextArgsNone(ShortFn)}),
                          Scripts({TextArgsNone(ShortFn)}),
                          Scripts({TextArgsNone(ShortFn)}),
                          Scripts({TextArgsPlain(ShortFn)}))],
    [options |-> [NoOptions EXCEPT
                    !.functionPattern = Given(StringPattern(ShortFn \o <<"(">>))],
     units   |-> AllUnits(Scripts({TextOne(ShortFn)}),
                          Scripts({TextOne(ShortFn)}),
                          Scripts({TextOne(ShortFn)}),
                          Scripts({TextOne(ShortFn)}))] }
  \cup
  { [options |-> [NoOptions EXCEPT
                    !.functionPattern = Given(StringPattern(ShortFn \o <<"(">>)),
                    !.functionReplace = Given(ShortFn \o <<"(">>),
                    !.groupIndex = g],
     units   |-> AllUnits(Scripts({TextOne(ShortFn), TextNone}),
                          Scripts({TextOne(ShortFn)}),
                          Scripts({TextOne(ShortFn)}),
                          Scripts({TextOne(ShortFn)}))] :
    g \in { NotGiven(GroupIndexNumber(0)),
            Given(GroupIndexNumber(0)),
            Given(GroupIndexList(<<0>>)) } }
  \cup
  { [options |-> [NoOptions EXCEPT !.moduleFilter = Given(chain)],
     units   |-> AllUnits({Unit(path, TextOne(Gettext)) :
                             path \in {FoobarJs, Foobar11Js, Foobar12Css,
                                       Foobar12Js}},
                          Scripts({TextOne(Gettext)}),
                          {Unit(Foobar12Js, TextOne(Gettext))},
                          {Unit(Foobar12Js, TextOther(Gettext))})] :
    chain \in FilterChains }

VARIABLES
  options,    \* the options the plugin is constructed with
  units,      \* the modules the host builds: userRequest and source text
  plugin,     \* the instance: "state" and the fields the constructor sets
  keys,       \* this.keys
  generator,  \* the counter of this.generator
  phase,      \* per compiler: unapplied, idle, compiling, done
  builds,     \* compilations started so far
  fired,      \* 'optimize-chunks' passes fired so far
  passes,     \* per compiler: passes of the current compilation
  source,     \* per unit: module._source._value
  errors,     \* per compiler: compilation.errors
  log,        \* per compiler: the matches handled in the current compilation
  delivered,  \* per compiler: the last arguments of the 'done' sink
  files,      \* the files written
  produced    \* the values a generator taken on its own has yielded

vars == <<options, units, plugin, keys, generator, phase, builds, fired, passes,
          source, errors, log, delivered, files, produced>>

NotConstructed == [state |-> "none", this |-> Constructor(NoOptions).this]

Init ==
  /\ \E cfg \in Configurations :
       /\ options = cfg.options
       /\ units \in cfg.units
  /\ plugin = NotConstructed
  /\ keys = EmptyObject
  /\ generator = 0
  /\ phase = [c \in Compilers |-> "unapplied"]
  /\ builds = 0
  /\ fired = 0
  /\ passes = [c \in Compilers |-> 0]
  /\ source = [u \in Units |-> units[u].text]
  /\ errors = [c \in Compilers |-> <<>>]
  /\ log = [c \in Compilers |-> <<>>]
  /\ delivered = [c \in Compilers |-> [called |-> FALSE, result |-> EmptyObject]]
  /\ files = EmptyObject
  /\ produced = <<>>

\* new ExtractTranslationRegexPlugin(options)
Construct ==
  /\ plugin.state = "none"
  /\ LET made == Constructor(options)
     IN  plugin' = [state |-> IF made.threw THEN "threw" ELSE "ok",
                    this  |-> made.this]
  /\ UNCHANGED <<options, units, keys, generator, phase, builds, fired,
                 passes, source, errors, log, delivered, files, produced>>

\* plugin.apply(compiler) (lines 70-76, 153): fresh keys and generator, and
\* the handlers registered on this compiler.
Apply(c) ==
  /\ plugin.state = "ok"
  /\ phase[c] = "unapplied"
  /\ keys' = EmptyObject
  /\ generator' = 0
  /\ phase' = [phase EXCEPT ![c] = "idle"]
  /\ UNCHANGED <<options, units, plugin, builds, fired, passes, source,
                 errors, log, delivered, files, produced>>

\* The compiler starts a compilation: its modules are built from the
\* host's texts (the 'compilation' handler, line 74, only registers).
StartCompilation(c) ==
  /\ phase[c] \in {"idle", "done"}
  /\ builds < MaxBuilds
  /\ builds' = builds + 1
  /\ phase' = [phase EXCEPT ![c] = "compiling"]
  /\ passes' = [passes EXCEPT ![c] = 0]
  /\ source' = [u \in Units |-> IF u \in UnitsOf(c) THEN units[u].text
                                ELSE source[u]]
  /\ errors' = [errors EXCEPT ![c] = <<>>]
  /\ log' = [log EXCEPT ![c] = <<>>]
  /\ UNCHANGED <<options, units, plugin, keys, generator, fired, delivered,
                 files, produced>>

\* The state the 'optimize-chunks' handler leaves.
AfterPass(c, st2) ==
  /\ keys' = st2.keys
  /\ generator' = st2.generator
  /\ source' = st2.source
  /\ errors' = [errors EXCEPT ![c] = st2.errors]
  /\ log' = [log EXCEPT ![c] = st2.log]

\* The host fires 'optimize-chunks' on the compilation of c.
OptimizeChunks(c) ==
  /\ phase[c] = "compiling"
  /\ fired < MaxPasses
  /\ fired' = fired + 1
  /\ AfterPass(c,
       optimizeChunks(plugin.this,
         [keys |-> keys, generator |-> generator, source |-> source,
          text |-> <<>>, errors |-> errors[c], log |-> log[c],
          returned |-> FALSE],
         [compiler |-> c, pass |-> passes[c] + 1, chunk |-> <<>>, unit |-> ""],
         ChunksOf(c), units))
  /\ passes' = [passes EXCEPT ![c] = @ + 1]
  /\ UNCHANGED <<options, units, plugin, phase, builds, delivered, files, produced>>

\* The host fires 'done' on compiler c.
Done(c) ==
  /\ phase[c] = "compiling"
  /\ passes[c] >= 1
  /\ delivered' = [delivered EXCEPT ![c] = [called |-> TRUE, result |-> keys]]
  /\ LET r == doneHandler(plugin.this, keys, files, CompilerName(c))
     IN  /\ plugin' = [plugin EXCEPT !.this.output = r.output]
         /\ files' = r.files
  /\ UNCHANGED produced
  /\ phase' = [phase EXCEPT ![c] = "done"]
  /\ UNCHANGED <<options, units, keys, generator, builds, fired, passes,
                 source, errors, log>>

Next ==
  \/ Construct
  \/ \E c \in Compilers : Apply(c)
  \/ \E c \in Compilers : StartCompilation(c)
  \/ \E c \in Compilers : OptimizeChunks(c)
  \/ \E c \in Compilers : Done(c)

Spec == Init /\ [][Next]_vars

(***************************************************************************)
(* A generator instance taken on its own (key-generator.js, lines 12-23)   *)
(***************************************************************************)

\* Most values drawn from the generator.
MaxDraws == 4000

InitGen ==
  /\ options = NoOptions
  /\ units = [u \in Units |-> Unit(ScriptPath, TextNone)]
  /\ plugin = NotConstructed
  /\ keys = EmptyObject
  /\ generator = 0
  /\ phase = [c \in Compilers |-> "unapplied"]
  /\ builds = 0
  /\ fired = 0
  /\ passes = [c \in Compilers |-> 0]
  /\ source = [u \in Units |-> units[u].text]
  /\ errors = [c \in Compilers |-> <<>>]
  /\ log = [c \in Compilers |-> <<>>]
  /\ delivered = [c \in Compilers |-> [called |-> FALSE, result |-> EmptyObject]]
  /\ files = EmptyObject
  /\ produced = <<>>

\* generator.next()
Draw ==
  /\ generator < MaxDraws
  /\ produced' = Append(produced, GeneratorNext(generator).value)
  /\ generator' = GeneratorNext(generator).index
  /\ UNCHANGED <<options, units, plugin, keys, phase, builds, fired, passes,
                 source, errors, log, delivered, files>>

NextGen == Draw

SpecGen == InitGen /\ [][NextGen]_vars

(***************************************************************************)
(* What the claims speak of                                                *)
(***************************************************************************)

Range(seq) == {seq[i] : i \in 1..Len(seq)}

Pairs(obj) == Range(obj)

TableOf(obj, name) == IF HasOwn(obj, name) THEN GetProp(obj, name) ELSE EmptyObject

ChunkNames(c) == {ChunksOf(c)[i].name : i \in 1..Len(ChunksOf(c))}

\* The key a match carries: the text of the first configured group that
\* captured non-empty text.
KeyOfMatch(m, groupIndex) ==
  IF getKeyIndexFromMatch(m, groupIndex) = -1 THEN <<>>
  ELSE Group(m, getKeyIndexFromMatch(m, groupIndex)).txt

\* The keys of the occurrences of the pattern in a text, left to right, by a
\* scan of the text as it stands.
RECURSIVE KeysFrom(_, _, _, _)
KeysAfter(regex, groupIndex, text, m) ==
  IF ~m.found THEN <<>>
  ELSE <<KeyOfMatch(m, groupIndex)>>
       \o KeysFrom(regex, groupIndex, text, m.lastIndex)

KeysFrom(regex, groupIndex, text, lastIndex) ==
  KeysAfter(regex, groupIndex, text, exec(regex, text, lastIndex))

KeysIn(text) ==
  KeysFrom(ensureRegExp(plugin.this.functionPattern), plugin.this.groupIndex,
           text, 0)

\* The unit takes part in extraction.
Accepted(u) ==
  /\ units[u].userRequest.def
  /\ filterModule(units[u].userRequest.txt, plugin.this.moduleFilter)

\* The keys in the input texts of a chunk's accepted units, in order.
RECURSIVE InputKeys(_)
InputKeys(modules) ==
  IF modules = <<>> THEN <<>>
  ELSE (IF Accepted(Head(modules)) THEN KeysIn(units[Head(modules)].text)
        ELSE <<>>)
       \o InputKeys(Tail(modules))

\* A sequence without its repetitions.
RECURSIVE Distinct(_, _)
Distinct(seq, seen) ==
  IF seq = <<>> THEN <<>>
  ELSE IF Head(seq) \in seen THEN Distinct(Tail(seq), seen)
  ELSE <<Head(seq)>> \o Distinct(Tail(seq), seen \cup {Head(seq)})

\* Compiler c has finished the only run of the instance, a run of one pass
\* without an extraction error, and no other compiler has been set up.
SingleRun(c) ==
  /\ phase[c] = "done"
  /\ builds = 1
  /\ fired = 1
  /\ errors[c] = <<>>
  /\ \A d \in Compilers \ {c} : phase[d] = "unapplied"

Result(c) == delivered[c].result

\* The matches of the current run of c that put a new key into a table.
FreshOf(c) == SelectSeq(log[c], LAMBDA e : e.fresh)

\* In the final text of unit u every occurrence that carried key k in the
\* input text carries the key assigned.
RewrittenTo(u, k, assigned) ==
  /\ Len(KeysIn(source[u])) = Len(KeysIn(units[u].text))
  /\ \A i \in 1..Len(KeysIn(units[u].text)) :
       KeysIn(units[u].text)[i] = k => KeysIn(source[u])[i] = assigned

(***************************************************************************)
(* The claims                                                              *)
(***************************************************************************)

\* C1: in mangling mode, after a single run over one group, the group's
\* finalized mapping holds exactly the distinct original keys of the input
\* texts, the i-th in discovery order under the i-th generator output.
C1_MangledMapping ==
  \A c \in Compilers :
    (plugin.this.mangle /\ SingleRun(c) /\ Len(ChunksOf(c)) = 1) =>
      Pairs(TableOf(Result(c), ChunksOf(c)[1].name))
        = { <<GeneratorNext(i - 1).value,
              Distinct(InputKeys(ChunksOf(c)[1].modules), {})[i]>> :
            i \in 1..Len(Distinct(InputKeys(ChunksOf(c)[1].modules), {})) }

\* C2: an original key that occurs in two units of one group has exactly
\* one assigned key in the group's Run Result, and in mangling mode its
\* occurrences in both units are rewritten to that assigned key.
C2_OneAssignedKey ==
  \A c \in Compilers : SingleRun(c) =>
    \A n \in 1..Len(ChunksOf(c)) :
      \A u1, u2 \in Range(ChunksOf(c)[n].modules) :
        (u1 # u2 /\ Accepted(u1) /\ Accepted(u2)) =>
          \A k \in Range(KeysIn(units[u1].text)) \cap Range(KeysIn(units[u2].text)) :
            /\ Cardinality({e \in Pairs(TableOf(Result(c), ChunksOf(c)[n].name)) :
                              e[2] = k}) = 1
            /\ plugin.this.mangle =>
                 \A u \in {u1, u2} :
                   RewrittenTo(u, k,
                     (CHOOSE e \in Pairs(TableOf(Result(c), ChunksOf(c)[n].name)) :
                        e[2] = k)[1])

\* C3: in mangling mode, at the end of a run, every key occurrence of the
\* rewritten text carries an identifier that the group's Run Result maps to
\* the original key the occurrence carried in the input text.
C3_MapsBack ==
  \A c \in Compilers : (plugin.this.mangle /\ SingleRun(c)) =>
    \A n \in 1..Len(ChunksOf(c)) :
      \A u \in Range(ChunksOf(c)[n].modules) : Accepted(u) =>
        /\ Len(KeysIn(source[u])) = Len(KeysIn(units[u].text))
        /\ \A i \in 1..Len(KeysIn(source[u])) :
             /\ HasOwn(TableOf(Result(c), ChunksOf(c)[n].name), KeysIn(source[u])[i])
             /\ GetProp(TableOf(Result(c), ChunksOf(c)[n].name), KeysIn(source[u])[i])
                  = KeysIn(units[u].text)[i]

\* C4: in mangling mode the first new identifier assigned in every run is
\* the generator's first output, "0".
C4_RestartsAtZero ==
  plugin.this.mangle =>
    \A c \in Compilers :
      FreshOf(c) # <<>> => FreshOf(c)[1].key = GeneratorNext(0).value

\* C5: the Run Result delivered at the end of a run holds only groups of
\* that run and only entries that come from matches of that run.
C5_NoInterference ==
  \A c \in Compilers : phase[c] = "done" =>
    \A n \in 1..Len(Result(c)) :
      /\ Result(c)[n][1] \in ChunkNames(c)
      /\ \A e \in Pairs(Result(c)[n][2]) :
           \E j \in 1..Len(log[c]) :
             /\ log[c][j].chunk = Result(c)[n][1]
             /\ log[c][j].keyIndex # -1
             /\ log[c][j].value \in {e[1], e[2]}

\* C6: the table handed to the done sink maps, for each group, assigned key
\* to original key: it is the inverse of the forward table the scan built,
\* after any number of passes and after a pass that ended with an error.
C6_AssignedToOriginal ==
  \A c \in Compilers :
    (/\ phase[c] = "done"
     /\ builds = 1
     /\ \A d \in Compilers \ {c} : phase[d] = "unapplied") =>
      \A g \in ChunkNames(c) :
        Pairs(TableOf(Result(c), g))
          = { <<e.key, e.value>> : e \in {x \in Range(FreshOf(c)) : x.chunk = g} }

\* C7: construction throws exactly when a functionPattern is supplied
\* without functionReplace or mangle is enabled without functionReplace.
C7_ConstructionFails ==
  plugin.state # "none" =>
    (plugin.state = "threw"
       <=> \/ (options.functionPattern.given /\ ~options.functionReplace.given)
           \/ (options.mangle.given /\ options.mangle.val
                 /\ ~options.functionReplace.given))

\* A handled match for which no configured group captured non-empty text.
NoKeyCaptured(e) ==
  ~\E i \in Range(plugin.this.groupIndex) :
      /\ i + 1 <= Len(e.groups)
      /\ e.groups[i + 1].def
      /\ e.groups[i + 1].txt # <<>>

Base62Digits ==
  << "0","1","2","3","4","5","6","7","8","9",
     "A","B","C","D","E","F","G","H","I","J","K","L","M",
     "N","O","P","Q","R","S","T","U","V","W","X","Y","Z",
     "a","b","c","d","e","f","g","h","i","j","k","l","m",
     "n","o","p","q","r","s","t","u","v","w","x","y","z" >>

\* The number a key denotes, most significant digit first.
RECURSIVE NumberOf(_)
NumberOf(key) ==
  IF key = <<>> THEN 0
  ELSE Len(Base62Digits) * NumberOf(SubSeq(key, 1, Len(key) - 1))
       + (CHOOSE d \in 0..(Len(Base62Digits) - 1) :
            Base62Digits[d + 1] = key[Len(key)])

\* C9: the value a generator yields n-th (n from 0) is the base-62
\* representation of n over 0-9, A-Z, a-z, without a leading zero digit, and
\* differs from every value yielded before.
C9_Base62 ==
  produced # <<>> =>
    LET n   == Len(produced) - 1
        key == produced[Len(produced)]
    IN  /\ key # <<>>
        /\ \A i \in 1..Len(key) : key[i] \in Range(Base62Digits)
        /\ NumberOf(key) = n
        /\ (Len(key) > 1 => key[1] # "0")
        /\ \A i \in 1..n : produced[i] # key

\* C9 witness: the values numbered 0, 61, 62 and 3844 have been yielded.
C9_Witness ==
  /\ Len(produced) > 3844
  /\ produced[1] = <<"0">>
  /\ produced[62] = <<"z">>
  /\ produced[63] = <<"1", "0">>
  /\ produced[3845] = <<"1", "0", "0">>

\* C10: in non-mangling mode every entry of every Run Result has its
\* assigned key equal to its original key, and no unit's text changes.
C10_Identity ==
  (plugin.state = "ok" /\ ~plugin.this.mangle) =>
    /\ \A c \in Compilers : delivered[c].called =>
         \A n \in 1..Len(Result(c)) :
           \A e \in Pairs(Result(c)[n][2]) : e[1] = e[2]
    /\ \A u \in Units : source[u] = units[u].text

\* C10 witness: a run of two passes over two groups is done in
\* non-mangling mode and delivered two keys for one group.
C10_Witness ==
  /\ plugin.state = "ok"
  /\ ~plugin.this.mangle
  /\ \E c \in Compilers :
       /\ phase[c] = "done"
       /\ passes[c] = 2
       /\ Len(Result(c)) = 2
       /\ Len(TableOf(Result(c), MainChunk)) = 2

\* The subject the i-th pattern of a chain is applied to: the unit
\* identifier for the first, and then the text of the last capturing group
\* of the match before (the full match where the pattern has no group).
RECURSIVE ChainSubject(_, _, _)
ChainSubject(chain, id, i) ==
  IF i = 1 THEN id
  ELSE LET m == FilterMatch(chain[i - 1], ChainSubject(chain, id, i - 1))
       IN  IF Len(m.groups) > 1 THEN m.groups[Len(m.groups)].txt
           ELSE m.groups[1].txt

ChainAccepts(chain, id) ==
  \A i \in 1..Len(chain) :
    (\A j \in 1..(i - 1) : FilterMatch(chain[j], ChainSubject(chain, id, j)).found)
      => FilterMatch(chain[i], ChainSubject(chain, id, i)).found

\* The pattern occurs in the input text of unit u.
HasOccurrence(u) ==
  exec(ensureRegExp(plugin.this.functionPattern), units[u].text, 0).found

\* Unit u was scanned in the current compilation of c: a match of it was
\* handled.
Scanned(c, u) == \E i \in 1..Len(log[c]) : log[c][i].unit = u

\* C11: the Module Filter accepts a unit identifier iff every pattern of
\* the chain matches its subject, the first subject being the identifier
\* and each later one the last capturing group of the match before (the
\* full match without a group); for [ /[a-z]+([0-9]+)\.js$/, /12/ ] only
\* foobar12.js among foobar.js, foobar11.js, foobar12.css, foobar12.js is
\* accepted.
C11_FilterChain ==
  \A c \in Compilers :
    (plugin.state = "ok" /\ passes[c] >= 1 /\ errors[c] = <<>>) =>
      \A u \in UnitsOf(c) : HasOccurrence(u) =>
        /\ Scanned(c, u)
             <=> ChainAccepts(plugin.this.moduleFilter, units[u].userRequest.txt)
        /\ (/\ plugin.this.moduleFilter = <<"lettersDigitsJs", "twelve">>
            /\ units[u].userRequest
                 \in {FoobarJs, Foobar11Js, Foobar12Css, Foobar12Js})
             => (Scanned(c, u) <=> units[u].userRequest = Foobar12Js)

\* C11 witness: under the example chain a pass has scanned foobar12.js and
\* passed over a unit the chain rejects.
C11_Witness ==
  /\ plugin.state = "ok"
  /\ plugin.this.moduleFilter = <<"lettersDigitsJs", "twelve">>
  /\ passes["A"] >= 1
  /\ units["a1"].userRequest = Foobar12Js
  /\ Scanned("A", "a1")
  /\ ~Scanned("A", "a2")
  /\ HasOccurrence("a2")


\* A template with the first occurrence of a token replaced by a text taken
\* as it is.
SubstituteToken(template, token, text) ==
  IF IndexOf(template, token, 1) = 0 THEN template
  ELSE SubSeq(template, 1, IndexOf(template, token, 1) - 1)
       \o text
       \o From(template, IndexOf(template, token, 1) + Len(token))

\* The name of the run of compiler c: empty when the compiler has none.
RunName(c) == IF CompilerName(c).def THEN CompilerName(c).txt ELSE <<>>

\* C12: when a run has finished with an output template configured, the
\* paths written are the template with [child] replaced by that run's own
\* name (empty when it has none) and [chunk], when present, by the
\* sanitized group name; for each run of several on one instance.
C12_OutputPaths ==
  \A c \in Compilers :
    (phase[c] = "done" /\ options.output.given) =>
      IF IndexOf(options.output.val, ChunkToken, 1) = 0
      THEN HasOwn(files, SubstituteToken(options.output.val, ChildToken, RunName(c)))
      ELSE \A n \in 1..Len(Result(c)) :
             HasOwn(files,
               SubstituteToken(
                 SubstituteToken(options.output.val, ChildToken, RunName(c)),
                 ChunkToken, safeName(Result(c)[n][1], 1)))


\* The merge of the groups' mappings in group order: each property with the
\* value of the last group that holds it.
MergedPairs(groups) ==
  { e \in UNION {Pairs(groups[n][2]) : n \in 1..Len(groups)} :
      \E n \in 1..Len(groups) :
        /\ e \in Pairs(groups[n][2])
        /\ \A m \in (n + 1)..Len(groups) : ~HasOwn(groups[m][2], e[1]) }

\* The paths at which the files differ between two states of the disk.
ChangedPaths(old, new) ==
  { new[i][1] : i \in {j \in 1..Len(new) :
       ~HasOwn(old, new[j][1]) \/ GetProp(old, new[j][1]) # new[j][2]} }

\* C13: a done handler whose template has no [chunk] token writes exactly
\* one object, the merge of all groups' mappings in group order, a later
\* group's entry replacing an earlier one under the same key; with the token
\* it writes one object per group, equal to that group's mapping.
C13_Written ==
  [][\A c \in Compilers :
       (phase[c] = "compiling" /\ phase'[c] = "done" /\ options.output.given) =>
         IF IndexOf(options.output.val, ChunkToken, 1) = 0
         THEN /\ HasOwn(files', plugin'.this.output.txt)
              /\ Pairs(GetProp(files', plugin'.this.output.txt)) = MergedPairs(keys)
              /\ Len(GetProp(files', plugin'.this.output.txt))
                   = Cardinality(MergedPairs(keys))
              /\ ChangedPaths(files, files') \subseteq {plugin'.this.output.txt}
         ELSE /\ \A n \in 1..Len(keys) :
                   /\ HasOwn(files', ReplaceFirst(plugin'.this.output.txt,
                                       ChunkToken, safeName(keys[n][1], 1)))
                   /\ GetProp(files', ReplaceFirst(plugin'.this.output.txt,
                                        ChunkToken, safeName(keys[n][1], 1)))
                        = keys[n][2]
              /\ ChangedPaths(files, files')
                   \subseteq { ReplaceFirst(plugin'.this.output.txt, ChunkToken,
                                            safeName(keys[n][1], 1)) :
                               n \in 1..Len(keys) }
    ]_vars

\* C13 witness: a single file has been written from two groups that hold
\* the same key with different values, and it carries the later group's.
C13_Witness ==
  /\ plugin.state = "ok"
  /\ options.output.given
  /\ IndexOf(options.output.val, ChunkToken, 1) = 0
  /\ \E c \in Compilers : phase[c] = "done" /\ Result(c) = keys
  /\ Len(keys) = 2
  /\ \E k \in {keys[1][2][i][1] : i \in 1..Len(keys[1][2])} :
       /\ HasOwn(keys[2][2], k)
       /\ GetProp(keys[2][2], k) # GetProp(keys[1][2], k)
       /\ HasOwn(files, plugin.this.output.txt)
       /\ GetProp(GetProp(files, plugin.this.output.txt), k) = GetProp(keys[2][2], k)


\* The texts a table holds, as properties or as values.
TextsOf(table) ==
  {table[i][1] : i \in 1..Len(table)} \cup {table[i][2] : i \in 1..Len(table)}

\* Unit u takes no part in a pass over its present text: the Module Filter
\* rejects it or the pattern does not occur in the text.
Idle(u) ==
  \/ ~Accepted(u)
  \/ ~exec(ensureRegExp(plugin.this.functionPattern), source[u], 0).found

\* C14: a unit whose text holds no occurrence of the pattern, and a unit the
\* Module Filter rejects, keeps its text through a pass, has no match
\* handled, and so adds nothing to a Key Table and draws no identifier:
\* what a pass adds to a table and draws from the generator comes from the
\* matches handled, in mangling and in non-mangling mode.
C14_IdleUnits ==
  [][\A c \in Compilers :
       (phase[c] = "compiling" /\ passes'[c] = passes[c] + 1) =>
         /\ \A u \in UnitsOf(c) : Idle(u) =>
              /\ source'[u] = source[u]
              /\ \A i \in (Len(log[c]) + 1)..Len(log'[c]) : log'[c][i].unit # u
         /\ \A n \in 1..Len(keys') :
              TextsOf(keys'[n][2]) \subseteq
                TextsOf(TableOf(keys, keys'[n][1]))
                  \cup UNION { {log'[c][i].value, log'[c][i].key} :
                               i \in { j \in (Len(log[c]) + 1)..Len(log'[c]) :
                                         /\ log'[c][j].chunk = keys'[n][1]
                                         /\ log'[c][j].fresh } }
         /\ generator' = generator
              + Cardinality({ i \in (Len(log[c]) + 1)..Len(log'[c]) :
                                log'[c][i].fresh /\ plugin.this.mangle })
    ]_vars

\* C14 witness: a mangling pass has gone over a unit without an occurrence
\* and a unit the filter rejects, both unchanged, and has drawn one
\* identifier for the one unit left.
C14_Witness ==
  /\ plugin.state = "ok"
  /\ plugin.this.mangle
  /\ passes["A"] = 1
  /\ units["a1"].text = TextNone
  /\ Accepted("a1")
  /\ ~Accepted("a2")
  /\ source["a1"] = units["a1"].text
  /\ source["a2"] = units["a2"].text
  /\ Scanned("A", "a3")
  /\ generator = 1


\* The matches of unit u handled in the current compilation of c.
EventsOf(c, u) == SelectSeq(log[c], LAMBDA e : e.unit = u)

\* C15: for every unit that passes the filter the scan visits every
\* occurrence of the pattern in the input text, left to right, so every
\* original key of the input text is in the group's table when the run is
\* done; in mangling mode too, where the text is rewritten between searches.
C15_EveryOccurrence ==
  \A c \in Compilers : SingleRun(c) =>
    \A n \in 1..Len(ChunksOf(c)) :
      \A u \in Range(ChunksOf(c)[n].modules) : Accepted(u) =>
        /\ Len(EventsOf(c, u)) = Len(KeysIn(units[u].text))
        /\ \A i \in 1..Len(EventsOf(c, u)) :
             EventsOf(c, u)[i].value = KeysIn(units[u].text)[i]
        /\ \A k \in Range(KeysIn(units[u].text)) :
             \E e \in Pairs(TableOf(Result(c), ChunksOf(c)[n].name)) : e[2] = k


\* The matches of group g that saved a new key in the pass just made by c.
NewKeysOf(c, g) ==
  { i \in (Len(log[c]) + 1)..Len(log'[c]) :
      log'[c][i].chunk = g /\ log'[c][i].fresh }

\* C16: at the finalization that ends a pass no two original keys of a
\* group are mapped to the same assigned key, so the inversion loses no
\* entry: the finalized mapping has as many entries as the forward table
\* had (the entries the table held before the pass and one for every key
\* the pass saved).
C16_FlipLosesNothing ==
  [][\A c \in Compilers :
       (/\ phase[c] = "compiling"
        /\ passes'[c] = passes[c] + 1
        /\ Len(errors'[c]) = Len(errors[c])) =>
         \A n \in 1..Len(keys') :
           Len(keys'[n][2])
             = Len(TableOf(keys, keys'[n][1]))
                 + Cardinality(NewKeysOf(c, keys'[n][1]))
    ]_vars


\* What the back-reference to group i of a match stands for: the assigned
\* key for the winning key group, empty text for any other key-eligible
\* group and for a group that did not take part, else the captured text.
Resolved(groups, groupIndex, keyIndex, key, i) ==
  IF i = keyIndex THEN key
  ELSE IF i \in Range(groupIndex) \/ ~groups[i + 1].def THEN <<>>
  ELSE groups[i + 1].txt

\* A template with every back-reference $i to a group of the match
\* resolved in one step, left to right.
RECURSIVE ResolveOnce(_, _, _, _, _)
ResolveOnce(template, groups, groupIndex, keyIndex, key) ==
  IF template = <<>> THEN <<>>
  ELSE IF /\ template[1] = "$"
          /\ Len(template) >= 2
          /\ template[2] \in Digits
          /\ DecimalValue(<<template[2]>>) \in 1..(Len(groups) - 1)
  THEN Resolved(groups, groupIndex, keyIndex, key, DecimalValue(<<template[2]>>))
       \o ResolveOnce(SubSeq(template, 3, Len(template)), groups, groupIndex,
                      keyIndex, key)
  ELSE <<template[1]>>
       \o ResolveOnce(Tail(template), groups, groupIndex, keyIndex, key)

\* C17: in mangling mode the replacement built for a match is the
\* Replacement Template with every back-reference resolved in one step: the
\* assigned key for the winning key group, empty text for another
\* key-eligible group, the captured text (or empty text) for a non-key
\* group, nothing inserted being read again.
C17_ResolvedOnce ==
  \A c \in Compilers :
    (plugin.state = "ok" /\ plugin.this.mangle) =>
      \A i \in 1..Len(log[c]) : log[c][i].keyIndex # -1 =>
        log[c][i].replacement
          = ResolveOnce(plugin.this.functionReplace, log[c][i].groups,
                        plugin.this.groupIndex, log[c][i].keyIndex,
                        log[c][i].key)


\* A text with every occurrence of needle, left to right, replaced by repl
\* taken as it is, and the rest kept.
RECURSIVE PlainReplaceFrom(_, _, _, _)
PlainReplaceFrom(str, needle, repl, p) ==
  IF p > Len(str) THEN <<>>
  ELSE IF StartsWithAt(str, p, needle)
  THEN repl \o PlainReplaceFrom(str, needle, repl, p + Len(needle))
  ELSE <<str[p]>> \o PlainReplaceFrom(str, needle, repl, p + 1)

\* C18: in mangling mode, processing one match replaces every literal
\* occurrence of the matched substring in the unit's whole text by the
\* computed replacement and leaves the rest of the text as it was; the
\* texts of the units no match was processed for stay untouched.
C18_ReplaceEverywhere ==
  [][\A c \in Compilers :
       (/\ phase[c] = "compiling"
        /\ passes'[c] = passes[c] + 1
        /\ plugin.this.mangle) =>
         /\ \A i \in (Len(log[c]) + 1)..Len(log'[c]) :
              log'[c][i].keyIndex # -1 =>
                log'[c][i].after
                  = PlainReplaceFrom(log'[c][i].before, log'[c][i].original,
                                     log'[c][i].replacement, 1)
         /\ \A u \in Units :
              (\A i \in (Len(log[c]) + 1)..Len(log'[c]) : log'[c][i].unit # u)
                => source'[u] = source[u]
    ]_vars


\* The list of group indices the options configure: the list given, or the
\* one-element list of the scalar given (the built-in list when none is).
ConfiguredGroupIndex ==
  IF ~options.groupIndex.given THEN <<1, 3>>
  ELSE IF options.groupIndex.val.type = "object" THEN options.groupIndex.val.items
  ELSE <<options.groupIndex.val.num>>

\* Group i of a match holds non-empty text.
NonEmptyGroup(groups, i) ==
  i >= 0 /\ i + 1 <= Len(groups) /\ groups[i + 1].def /\ groups[i + 1].txt # <<>>

\* The first index of list, in its order, whose group holds non-empty text,
\* or -1.
FirstNonEmpty(groups, list) ==
  IF \A n \in 1..Len(list) : ~NonEmptyGroup(groups, list[n]) THEN -1
  ELSE list[CHOOSE n \in 1..Len(list) :
              /\ NonEmptyGroup(groups, list[n])
              /\ \A m \in 1..(n - 1) : ~NonEmptyGroup(groups, list[m])]

\* C19: the key group of every match is the first index, in the configured
\* order of groupIndex, whose group holds non-empty text; a scalar
\* groupIndex counts as the one-element list holding it.
C19_KeyGroup ==
  \A c \in Compilers : plugin.state = "ok" =>
    \A i \in 1..Len(log[c]) :
      log[c][i].keyIndex = FirstNonEmpty(log[c][i].groups, ConfiguredGroupIndex)


\* The number of entries of all groups' mappings together.
RECURSIVE TotalEntries(_)
TotalEntries(groups) ==
  IF groups = <<>> THEN 0
  ELSE Len(Head(groups)[2]) + TotalEntries(Tail(groups))

\* C20: within one run in mangling mode the identifiers assigned are
\* unique across all groups, so the single-file merge of all groups has as
\* many entries as the groups' finalized mappings have together.
C20_UniqueAcrossGroups ==
  \A c \in Compilers :
    (/\ plugin.state = "ok"
     /\ plugin.this.mangle
     /\ phase[c] = "done"
     /\ builds = 1
     /\ \A d \in Compilers \ {c} : phase[d] = "unapplied") =>
      /\ \A i, j \in 1..Len(FreshOf(c)) :
           i # j => FreshOf(c)[i].key # FreshOf(c)[j].key
      /\ (options.output.given /\ IndexOf(options.output.val, ChunkToken, 1) = 0) =>
           /\ HasOwn(files, plugin.this.output.txt)
           /\ Len(GetProp(files, plugin.this.output.txt)) = TotalEntries(Result(c))


\* C21: an original key counts as present in a group's table only if an
\* earlier match of the same run saved it for that group, so every matched
\* original key, whatever its text (a name such as constructor or toString
\* included), has an entry in the group's finalized mapping.
C21_EveryKeyHasEntry ==
  \A c \in Compilers : (plugin.state = "ok" /\ SingleRun(c)) =>
    \A i \in 1..Len(log[c]) : log[c][i].keyIndex # -1 =>
      /\ ~log[c][i].fresh =>
           \E j \in 1..(i - 1) :
             /\ log[c][j].chunk = log[c][i].chunk
             /\ log[c][j].value = log[c][i].value
             /\ log[c][j].fresh
      /\ \E e \in Pairs(TableOf(Result(c), log[c][i].chunk)) :
           e[2] = log[c][i].value

====
